---- MODULE Spec2Model ----
(***************************************************************************)
(* Model of src/app.py: the Telegram relay bot with a per-chat session     *)
(* mode (user_states), two chatbot endpoints and an order ledger kept in a *)
(* Google Sheet (order sheet + log sheet).                                 *)
(*                                                                         *)
(* Text is modelled as sequences of one-character strings, so that the     *)
(* string operations of the code (lower, strip, split, startswith, in)     *)
(* are computed as Python computes them.                                   *)
(***************************************************************************)
EXTENDS Integers, Sequences, FiniteSets, TLC

(***************************************************************************)
(* Bounds of the model.                                                    *)
(***************************************************************************)
\* the order sheet holds at most this many rows, header included
MaxRows == 3
\* the log sheet holds at most this many rows
MaxLog == 1
\* an order message of the parser specification has at most this many lines
MaxLines == 4

(***************************************************************************)
(* Python string operations on sequences of characters.                    *)
(***************************************************************************)
UpperChars ==
  <<"A","B","C","D","E","F","G","H","I","J","K","L","M",
    "N","O","P","Q","R","S","T","U","V","W","X","Y","Z">>

LowerChars ==
  <<"a","b","c","d","e","f","g","h","i","j","k","l","m",
    "n","o","p","q","r","s","t","u","v","w","x","y","z">>

\* the lower-case letter of every upper-case letter
LowerOf ==
  [c \in {UpperChars[i] : i \in 1..Len(UpperChars)} |->
     LowerChars[CHOOSE i \in 1..Len(UpperChars) : UpperChars[i] = c]]

LowerChar(c) == IF c \in DOMAIN LowerOf THEN LowerOf[c] ELSE c

\* str.lower()
Lower(s) == [i \in 1..Len(s) |-> LowerChar(s[i])]

Whitespace == {" ", "\t", "\n", "\r"}

\* str.strip()
Strip(s) ==
  IF \A i \in 1..Len(s) : s[i] \in Whitespace
  THEN << >>
  ELSE LET a == CHOOSE i \in 1..Len(s) :
                  /\ s[i] \notin Whitespace
                  /\ \A j \in 1..(i-1) : s[j] \in Whitespace
           b == CHOOSE i \in 1..Len(s) :
                  /\ s[i] \notin Whitespace
                  /\ \A j \in (i+1)..Len(s) : s[j] \in Whitespace
       IN SubSeq(s, a, b)

\* sub in s
Contains(s, sub) ==
  \E i \in 1..(Len(s) - Len(sub) + 1) : SubSeq(s, i, i + Len(sub) - 1) = sub

\* s.startswith(pre)
StartsWith(s, pre) ==
  /\ Len(s) >= Len(pre)
  /\ SubSeq(s, 1, Len(pre)) = pre

HasChar(s, c) == \E i \in 1..Len(s) : s[i] = c

FirstIndex(s, c) ==
  CHOOSE i \in 1..Len(s) : s[i] = c /\ \A j \in 1..(i-1) : s[j] # c

\* s.split(c)
RECURSIVE Split(_, _)
Split(s, c) ==
  IF ~HasChar(s, c)
  THEN <<s>>
  ELSE LET i == FirstIndex(s, c)
       IN <<SubSeq(s, 1, i-1)>> \o Split(SubSeq(s, i+1, Len(s)), c)

\* s.split(c, 1)
SplitOnce(s, c) ==
  IF ~HasChar(s, c)
  THEN <<s>>
  ELSE LET i == FirstIndex(s, c)
       IN <<SubSeq(s, 1, i-1), SubSeq(s, i+1, Len(s))>>

\* str(n) for a natural number n
DigitChars == <<"0","1","2","3","4","5","6","7","8","9">>

RECURSIVE Str(_)
Str(n) ==
  IF n < 10 THEN <<DigitChars[n+1]>>
  ELSE Str(n \div 10) \o <<DigitChars[(n % 10) + 1]>>

(***************************************************************************)
(* Literals of the code.                                                   *)
(***************************************************************************)
s_nama == <<"n","a","m","a">>
s_kode_barang == <<"k","o","d","e"," ","b","a","r","a","n","g">>
s_alamat == <<"a","l","a","m","a","t">>
s_resi == <<"r","e","s","i">>
s_cari == <<"c","a","r","i"," ">>
s_ORD == <<"O","R","D","-">>

\* the keys of the dict parse_order_message builds
RequiredKeys == {"nama", "kodeBarang", "alamat", "resi"}

\* Python's None, and the empty dict: both are falsy
None == << >>

Truthy(d) == DOMAIN d # {}

\* d[k] = v on a dict
Put(d, k, v) == [x \in (DOMAIN d) \cup {k} |-> IF x = k THEN v ELSE d[x]]

(***************************************************************************)
(* parse_order_message                                                     *)
(***************************************************************************)
\* a loop body that compares the key without lowering it
parse_line_cased(data, line) ==
  LET parts == SplitOnce(line, ":")
  IN IF Len(parts) = 2
     THEN LET key == Strip(parts[1])
              value == Strip(parts[2])
              d1 == IF Contains(key, s_nama) THEN Put(data, "nama", value) ELSE data
              d2 == IF Contains(key, s_kode_barang) THEN Put(d1, "kodeBarang", value) ELSE d1
              d3 == IF Contains(key, s_alamat) THEN Put(d2, "alamat", value) ELSE d2
              d4 == IF Contains(key, s_resi) THEN Put(d3, "resi", value) ELSE d3
          IN d4
     ELSE data

\* d.setdefault(k, v): an assignment that keeps a value already there
PutNew(d, k, v) == IF k \in DOMAIN d THEN d ELSE Put(d, k, v)

\* a loop body that keeps the first value of a field
parse_line_first(data, line) ==
  LET parts == SplitOnce(line, ":")
  IN IF Len(parts) = 2
     THEN LET key == Lower(Strip(parts[1]))
              value == Strip(parts[2])
              d1 == IF Contains(key, s_nama) THEN PutNew(data, "nama", value) ELSE data
              d2 == IF Contains(key, s_kode_barang) THEN PutNew(d1, "kodeBarang", value) ELSE d1
              d3 == IF Contains(key, s_alamat) THEN PutNew(d2, "alamat", value) ELSE d2
              d4 == IF Contains(key, s_resi) THEN PutNew(d3, "resi", value) ELSE d3
          IN d4
     ELSE data

\* the body of the loop over the lines: the four substring tests, in order
parse_line(data, line) ==
  LET parts == SplitOnce(line, ":")
  IN IF Len(parts) = 2
     THEN LET key == Lower(Strip(parts[1]))
              value == Strip(parts[2])
              d1 == IF Contains(key, s_nama) THEN Put(data, "nama", value) ELSE data
              d2 == IF Contains(key, s_kode_barang) THEN Put(d1, "kodeBarang", value) ELSE d1
              d3 == IF Contains(key, s_alamat) THEN Put(d2, "alamat", value) ELSE d2
              d4 == IF Contains(key, s_resi) THEN Put(d3, "resi", value) ELSE d3
          IN d4
     ELSE data

RECURSIVE parse_lines(_, _)
parse_lines(lines, data) ==
  IF lines = << >> THEN data
  ELSE parse_lines(Tail(lines), parse_line(data, Head(lines)))

\* a check that accepts a dict holding any one of the keys
parse_result_any(data) ==
  IF \E k \in RequiredKeys : k \in DOMAIN data THEN data ELSE None

parse_result(data) ==
  IF \A k \in RequiredKeys : k \in DOMAIN data THEN data ELSE None

parse_order_message(message) ==
  parse_result(parse_lines(Split(message, "\n"), << >>))

(***************************************************************************)
(* The deployment: chats, menu tokens, endpoints, the clock.               *)
(***************************************************************************)
\* chat ids of the users
Users == {101, 102}

\* callback_data of the three menu buttons
Selections == {"chatbot_product", "chatbot_ticket", "ticket_system"}

CHATBOT_PRODUCT_API == "CHATBOT_PRODUCT_API"
CHATBOT_TICKET_API == "CHATBOT_TICKET_API"

\* datetime.now().strftime('%Y-%m-%d %H:%M:%S')
today ==
  <<"2","0","2","4","-","0","3","-","0","5"," ","1","0",":","0","0",":","0","0">>

\* the column names of the order sheet (its first row)
Header ==
  <<"no", "id_order", "tanggal_order", "nama", "kode_barang", "alamat",
    "resi", "status_pengiriman", "chat_id">>

\* worksheet.get_all_values(): every row, the header included
get_all_values(sheet) == sheet

\* worksheet.get_all_records(): the rows after the header, keyed by column name
get_all_records(sheet) ==
  [i \in 1..(Len(sheet) - 1) |->
     [h \in {sheet[1][c] : c \in 1..Len(sheet[1])} |->
        sheet[i + 1][CHOOSE c \in 1..Len(sheet[1]) : sheet[1][c] = h]]]

(***************************************************************************)
(* Outcomes of the external services, chosen by the environment.           *)
(***************************************************************************)
\* the order-sheet call that fails in a handler, if any
SheetFaults == {"ok", "connect", "worksheet", "io"}

\* the outcome of log_to_sheet's own connection and append
LogFaults == {"ok", "connect", "io"}

\* get_sheets_connection(): the spreadsheet, or None when anything raised
get_sheets_connection(fault) == fault # "connect"

Msg(text, args) == [text |-> text, args |-> args]

\* the log messages; the text of the exception is left out
CEK_ERROR == Msg("Error di cek_resi_sheets: {e}", << >>)

INPUT_ERROR == Msg("Error di input_data_sheets: {e}", << >>)

\* a log_to_sheet that writes to the local logger only
log_to_sheet_local(log, log_message, lf) == log

\* log_to_sheet: best effort append of [today, log_message]
log_to_sheet(log, log_message, lf) ==
  IF ~get_sheets_connection(lf) THEN log
  ELSE IF lf = "io" THEN log
  ELSE Append(log, <<today, log_message>>)

log_calls(lf) ==
  IF ~get_sheets_connection(lf) THEN <<"log.connect">>
  ELSE <<"log.connect", "log.append_row">>

(***************************************************************************)
(* The date of a lookup summary:                                           *)
(* datetime.strptime(t.split(" ")[0], '%Y-%m-%d').strftime('%d %b %Y')     *)
(***************************************************************************)
IsDigit(c) == \E i \in 1..Len(DigitChars) : DigitChars[i] = c

DigitVal(c) == (CHOOSE i \in 1..Len(DigitChars) : DigitChars[i] = c) - 1

AllDigits(s) == \A i \in 1..Len(s) : IsDigit(s[i])

RECURSIVE ToNat(_)
ToNat(s) ==
  IF s = << >> THEN 0
  ELSE 10 * ToNat(SubSeq(s, 1, Len(s) - 1)) + DigitVal(s[Len(s)])

IsLeap(y) == (y % 4 = 0 /\ y % 100 # 0) \/ y % 400 = 0

DaysIn(y, m) ==
  IF m = 2 THEN (IF IsLeap(y) THEN 29 ELSE 28)
  ELSE IF m \in {4, 6, 9, 11} THEN 30 ELSE 31

MonthAbbr ==
  << <<"J","a","n">>, <<"F","e","b">>, <<"M","a","r">>, <<"A","p","r">>,
     <<"M","a","y">>, <<"J","u","n">>, <<"J","u","l">>, <<"A","u","g">>,
     <<"S","e","p">>, <<"O","c","t">>, <<"N","o","v">>, <<"D","e","c">> >>

\* a strptime that wants the month and the day on two digits
strptime_strict(d) ==
  LET p == Split(d, "-")
  IN /\ Len(p) = 3
     /\ Len(p[1]) = 4 /\ AllDigits(p[1]) /\ ToNat(p[1]) >= 1
     /\ Len(p[2]) = 2 /\ AllDigits(p[2])
     /\ ToNat(p[2]) \in 1..12
     /\ Len(p[3]) = 2 /\ AllDigits(p[3])
     /\ ToNat(p[3]) \in 1..DaysIn(ToNat(p[1]), ToNat(p[2]))

\* strptime(d, '%Y-%m-%d') succeeds
strptime_ok(d) ==
  LET p == Split(d, "-")
  IN /\ Len(p) = 3
     /\ Len(p[1]) = 4 /\ AllDigits(p[1]) /\ ToNat(p[1]) >= 1
     /\ Len(p[2]) \in {1, 2} /\ AllDigits(p[2])
     /\ ToNat(p[2]) \in 1..12
     /\ Len(p[3]) \in {1, 2} /\ AllDigits(p[3])
     /\ ToNat(p[3]) \in 1..DaysIn(ToNat(p[1]), ToNat(p[2]))

\* a number printed on at least two digits (%d)
TwoDigits(n) == IF n < 10 THEN <<"0">> \o Str(n) ELSE Str(n)

\* strftime('%d %b %Y') of the parsed date
strftime(d) ==
  LET p == Split(d, "-")
  IN TwoDigits(ToNat(p[3])) \o <<" ">> \o MonthAbbr[ToNat(p[2])] \o <<" ">> \o p[1]

\* order_date of cek_resi_sheets: the rendered date, or the raw stored value
order_date(tanggal_order) ==
  LET d == Split(tanggal_order, " ")[1]
  IN IF strptime_ok(d) THEN strftime(d) ELSE tanggal_order

(***************************************************************************)
(* cek_resi_sheets: the lookup by tracking number.                         *)
(* The result is the reply, the log sheet afterwards and the calls made.   *)
(***************************************************************************)
Result(reply, log, calls) == [reply |-> reply, log |-> log, calls |-> calls]

\* the indices of the records whose resi column equals the query, lowercased
matching_rows(all_data, resi) ==
  {i \in 1..Len(all_data) : Lower(all_data[i]["resi"]) = Lower(resi)}

\* a loop without the break: the last matching record
last_match(all_data, resi) ==
  LET found == matching_rows(all_data, resi)
  IN CHOOSE i \in found : \A j \in found : i >= j

\* the for loop with break: the first matching record
first_match(all_data, resi) ==
  LET found == matching_rows(all_data, resi)
  IN CHOOSE i \in found : \A j \in found : i <= j

summary(resi, found_data) ==
  Msg("Info Resi <b>{resi}</b> ID Order: {id_order} Tanggal Order: {order_date} Nama: {nama} Kode Barang: {kode_barang} Alamat: {alamat} Status Pengiriman: <b>{status_pengiriman}</b>",
      <<resi, found_data["id_order"], order_date(found_data["tanggal_order"]),
        found_data["nama"], found_data["kode_barang"], found_data["alamat"],
        found_data["status_pengiriman"]>>)

cek_resi_scan(resi, all_data) ==
  IF matching_rows(all_data, resi) # {}
  THEN summary(resi, all_data[first_match(all_data, resi)])
  ELSE Msg("Resi <b>{resi}</b> tidak ditemukan.", <<resi>>)

cek_resi_sheets(resi, sheet, log, sf, lf) ==
  IF resi = << >>
  THEN Result(Msg("Format pencarian tidak valid. Gunakan: <code>cari [nomor resi]</code>", << >>),
              log, << >>)
  ELSE IF ~get_sheets_connection(sf)
  THEN Result(Msg("Gagal terhubung ke database Google Sheets.", << >>),
              log, <<"connect">>)
  ELSE IF sf = "worksheet"
  THEN Result(Msg("Terjadi kesalahan saat mencari resi {resi}.", <<resi>>),
              log_to_sheet(log, CEK_ERROR, lf),
              <<"connect", "order.worksheet">> \o log_calls(lf))
  ELSE IF sf = "io"
  THEN Result(Msg("Terjadi kesalahan saat mencari resi {resi}.", <<resi>>),
              log_to_sheet(log, CEK_ERROR, lf),
              <<"connect", "order.worksheet", "order.get_all_records">> \o log_calls(lf))
  ELSE Result(cek_resi_scan(resi, get_all_records(sheet)), log,
              <<"connect", "order.worksheet", "order.get_all_records">>)

(***************************************************************************)
(* input_data_sheets: the submission.  Other handlers can run between its  *)
(* read of the row count and its append, so it is modelled in two parts.   *)
(***************************************************************************)
STATUS_DIKEMAS == "Sedang dikemas"

\* a row numbered one past the row count
new_row_next(last_row_num, data) ==
  <<last_row_num + 1, s_ORD \o Str(last_row_num + 1), today, data["nama"],
    data["kodeBarang"], data["alamat"], data["resi"], STATUS_DIKEMAS,
    data["chatId"]>>

\* a row whose order id also carries the chat id
new_row_per_chat(last_row_num, data) ==
  <<last_row_num, s_ORD \o Str(last_row_num) \o <<"-">> \o Str(data["chatId"]),
    today, data["nama"], data["kodeBarang"], data["alamat"], data["resi"],
    STATUS_DIKEMAS, data["chatId"]>>

new_row(last_row_num, data) ==
  <<last_row_num, s_ORD \o Str(last_row_num), today, data["nama"],
    data["kodeBarang"], data["alamat"], data["resi"], STATUS_DIKEMAS,
    data["chatId"]>>

Begun(state, row, log, calls) ==
  [state |-> state, row |-> row, log |-> log, calls |-> calls]

\* up to and including the construction of new_row
input_data_begin(data, sheet, log, sf, lf) ==
  IF ~get_sheets_connection(sf)
  THEN Begun("None", << >>, log, <<"connect">>)
  ELSE IF sf = "worksheet"
  THEN Begun("None", << >>,
             log_to_sheet(log, INPUT_ERROR, lf),
             <<"connect", "order.worksheet">> \o log_calls(lf))
  ELSE IF sf = "io"
  THEN Begun("None", << >>,
             log_to_sheet(log, INPUT_ERROR, lf),
             <<"connect", "order.worksheet", "order.get_all_values">> \o log_calls(lf))
  ELSE IF ~(\A k \in RequiredKeys \cup {"chatId"} : k \in DOMAIN data)
  THEN Begun("None", << >>,
             log_to_sheet(log, INPUT_ERROR, lf),
             <<"connect", "order.worksheet", "order.get_all_values">> \o log_calls(lf))
  ELSE Begun("append", new_row(Len(get_all_values(sheet)), data), log,
             <<"connect", "order.worksheet", "order.get_all_values">>)

\* the reply of handle_ticket_system to the value input_data_sheets returned
submission_reply(id_order) ==
  IF id_order # << >>
  THEN Msg("Data berhasil disimpan dengan ID Order <b>{id_order}</b>", <<id_order>>)
  ELSE Msg("Data gagal disimpan.", << >>)

(***************************************************************************)
(* The text messages the users send.                                       *)
(***************************************************************************)
NL == <<"\n">>

\* a complete order block
text_order ==
  <<"n","a","m","a",":"," ","B">> \o NL \o
  <<"k","o","d","e"," ","b","a","r","a","n","g",":"," ","K">> \o NL \o
  <<"a","l","a","m","a","t",":"," ","J">> \o NL \o
  <<"r","e","s","i",":"," ","R","1">>

\* an order block with other letter case, no value after "Nama:", and the
\* same tracking number in lower case
text_order_no_name ==
  <<"N","a","m","a",":">> \o NL \o
  <<"K","O","D","E"," ","B","a","r","a","n","g",":","K","2"," ">> \o NL \o
  <<"A","l","a","m","a","t"," ",":"," ","J">> \o NL \o
  <<"R","E","S","I",":"," ","r","1">>

\* the two markers of a submission, and no more
text_order_incomplete ==
  <<"n","a","m","a",":"," ","B">> \o NL \o
  <<"k","o","d","e"," ","b","a","r","a","n","g",":"," ","K">>

text_cari_upper == <<"C","a","r","i"," "," ","r","1"," ">>
text_cari_other == <<"c","a","r","i"," ","X","9">>
text_cari_empty == <<"c","a","r","i"," ">>
text_halo == <<"h","a","l","o">>

Texts ==
  {text_order, text_order_no_name, text_order_incomplete, text_cari_upper,
   text_cari_other, text_cari_empty, text_halo}

\* the texts sent to a chatbot or with no mode selected: what they say is
\* not looked at
PlainTexts == {text_halo, text_order}

(***************************************************************************)
(* handle_ticket_system                                                    *)
(***************************************************************************)
is_lookup(message_text) == StartsWith(Lower(message_text), s_cari)

is_submission(message_text) ==
  /\ ~is_lookup(message_text)
  /\ Contains(Lower(message_text), s_nama \o <<":">>)
  /\ Contains(Lower(message_text), s_kode_barang \o <<":">>)

\* message_text[5:].strip()
lookup_query(message_text) == Strip(SubSeq(message_text, 6, Len(message_text)))

INVALID_FORMAT ==
  Msg("Format data yang Anda kirim tidak lengkap atau salah. Data tidak dapat disimpan.", << >>)

TICKET_HELP ==
  Msg("Perintah tidak dikenali dalam mode Tiket. Gunakan format: - <code>cari [nomor resi]</code> - atau kirim data order lengkap. Kirim /stop untuk keluar dari mode ini.", << >>)

Outcome(replies, log, calls, status, row) ==
  [replies |-> replies, log |-> log, calls |-> calls, status |-> status, row |-> row]

\* what handle_ticket_system computes from the text alone
read_text(message_text) ==
  [lookup |-> is_lookup(message_text),
   submission |-> is_submission(message_text),
   resi |-> lookup_query(message_text),
   parsed_data |-> parse_order_message(message_text)]

\* read_text, computed once for every text of the model
TextTable == [t \in Texts |-> read_text(t)]

\* reply_text = await cek_resi_sheets(resi)
after_lookup(r) == Outcome(<<r.reply>>, r.log, r.calls, "done", << >>)

\* id_order = await input_data_sheets(parsed_data), as far as it has got
after_begin(b) ==
  IF b.state = "append"
  THEN Outcome(<< >>, b.log, b.calls, "running", b.row)
  ELSE Outcome(<<submission_reply(<< >>)>>, b.log, b.calls, "done", << >>)

handle_ticket_system(chat_id, message_text, sheet, log, sf, lf) ==
  LET m == TextTable[message_text]
  IN IF m.lookup
     THEN after_lookup(cek_resi_sheets(m.resi, sheet, log, sf, lf))
     ELSE IF m.submission
     THEN IF Truthy(m.parsed_data)
          THEN after_begin(input_data_begin(Put(m.parsed_data, "chatId", chat_id),
                                            sheet, log, sf, lf))
          ELSE Outcome(<<INVALID_FORMAT>>, log, << >>, "done", << >>)
     ELSE Outcome(<<TICKET_HELP>>, log, << >>, "done", << >>)

(***************************************************************************)
(* handle_chatbot: the question-answer relay.                              *)
(***************************************************************************)
s_hi == <<"h","i">>
s_ok == <<"o","k">>

Response(kind, body) == [kind |-> kind, body |-> body]

\* what requests.post / raise_for_status / response.json() can produce
Responses ==
  { Response(k, << >>) :
      k \in {"timeout", "http_error", "bad_json_request_exception",
             "bad_json_value_error", "not_a_dict"} }
  \cup
  { Response("dict", b) :
      b \in { << >>,
              [answer |-> s_hi],
              [message |-> s_ok, answer |-> s_hi],
              [result |-> s_ok, message |-> s_hi],
              [result |-> << >>, answer |-> s_hi],
              [answer |-> << >>] } }

\* an endpoint that answers {"answer": ...} or times out
BasicResponses ==
  {Response("dict", [answer |-> s_hi]), Response("timeout", << >>)}

CHATBOT_FALLBACK == Msg("Maaf, chatbot tidak dapat merespons saat ini.", << >>)

CHATBOT_ERROR == Msg("Terjadi kesalahan saat mengakses chatbot.", << >>)

\* a text the API returned, sent as it is
Verbatim(value) == Msg("{reply}", <<value>>)

\* response_json.get(k) is truthy
body_has(body, k) == k \in DOMAIN body /\ body[k] # << >>

\* get("result") or get("message") or get("answer", fallback)
chatbot_reply(body) ==
  IF body_has(body, "result") THEN Verbatim(body["result"])
  ELSE IF body_has(body, "message") THEN Verbatim(body["message"])
  ELSE IF "answer" \in DOMAIN body THEN Verbatim(body["answer"])
  ELSE CHATBOT_FALLBACK

\* Telegram refuses to send an empty text: reply_text raises
sendable(msg) == ~(msg.text = "{reply}" /\ msg.args[1] = << >>)

handle_chatbot(resp) ==
  IF resp.kind \in {"timeout", "http_error", "bad_json_request_exception"}
  THEN [replies |-> <<CHATBOT_ERROR>>, status |-> "done"]
  ELSE IF resp.kind \in {"bad_json_value_error", "not_a_dict"}
  THEN [replies |-> << >>, status |-> "raised"]
  ELSE IF sendable(chatbot_reply(resp.body))
  THEN [replies |-> <<chatbot_reply(resp.body)>>, status |-> "done"]
  ELSE [replies |-> << >>, status |-> "raised"]

(***************************************************************************)
(* The state of the program.                                               *)
(***************************************************************************)
VARIABLES
  user_states,   \* the dict chat id -> selected mode
  order_sheet,   \* the rows of the order sheet, the header first
  log_sheet,     \* the rows of the log sheet
  pending,       \* per chat: the new_row of a submission that has read the
                 \* row count and not yet appended (with, as history, the
                 \* number of rows the sheet had at that read), or << >>
  last,          \* the handler that ran last: its input, calls and replies
  selected       \* history: per chat, the menu selection in force

vars == <<user_states, order_sheet, log_sheet, pending, last, selected>>

NoMode == "None"

\* user_states.get(chat_id)
Get(d, k) == IF k \in DOMAIN d THEN d[k] ELSE NoMode

\* del d[k]
Del(d, k) == [x \in (DOMAIN d) \ {k} |-> d[x]]

\* handler: the handler that ran; user: its chat; mode: the chat's mode when
\* it started; data: the callback data of a button; text: the text of a
\* message; to: the branch handle_message took; api: the endpoint posted to;
\* calls: the calls on the sheets; replies: the messages sent;
\* status: "done", "running" (a submission before its append) or "raised"
Last(handler, user, mode, data, text, to, api, calls, replies, status) ==
  [handler |-> handler, user |-> user, mode |-> mode, data |-> data,
   text |-> text, to |-> to, api |-> api, calls |-> calls,
   replies |-> replies, status |-> status]

Init ==
  /\ user_states = << >>
  /\ order_sheet = <<Header>>
  /\ log_sheet = << >>
  /\ pending = [u \in Users |-> << >>]
  /\ last = Last("none", 0, NoMode, "", << >>, "", "", << >>, << >>, "done")
  /\ selected = [u \in Users |-> NoMode]

\* the transport delivers one event at a time per chat
Idle(u) == pending[u] = << >>

(***************************************************************************)
(* The handlers.                                                           *)
(***************************************************************************)
MENU ==
  Msg("Selamat datang! Silakan pilih layanan yang Anda butuhkan:",
      <<"chatbot_product", "chatbot_ticket", "ticket_system">>)

\* /start
start(u) ==
  /\ Idle(u)
  /\ last' = Last("start", u, Get(user_states, u), "", << >>, "", "", << >>,
                  <<MENU>>, "done")
  /\ UNCHANGED <<user_states, order_sheet, log_sheet, pending, selected>>

\* a /stop that forgets every chat's mode
stop_states_all(states, chat_id) ==
  IF chat_id \in DOMAIN states THEN << >> ELSE states

\* a /stop that keeps the entry and blanks its mode
stop_states_blank(states, chat_id) ==
  IF chat_id \in DOMAIN states THEN Put(states, chat_id, NoMode) ELSE states

\* a /stop that forgets nothing
stop_states_none(states, chat_id) == states

stop_states(states, chat_id) ==
  IF chat_id \in DOMAIN states THEN Del(states, chat_id) ELSE states

stop_reply(states, chat_id) ==
  IF chat_id \in DOMAIN states
  THEN Msg("Anda telah keluar dari mode saat ini. Kirim /start untuk memulai lagi.", << >>)
  ELSE Msg("Anda sedang tidak dalam mode apa pun. Kirim /start untuk memulai.", << >>)

\* /stop
stop(u) ==
  /\ Idle(u)
  /\ user_states' = stop_states(user_states, u)
  /\ last' = Last("stop", u, Get(user_states, u), "", << >>, "", "", << >>,
                  <<stop_reply(user_states, u)>>, "done")
  /\ selected' = [selected EXCEPT ![u] = NoMode]
  /\ UNCHANGED <<order_sheet, log_sheet, pending>>

\* selection.replace("_", " ").title()
mode_text(selection) ==
  CASE selection = "chatbot_product" -> "Chatbot Product"
    [] selection = "chatbot_ticket" -> "Chatbot Ticket"
    [] selection = "ticket_system" -> "Ticket System"

\* a selection that does not replace a mode already chosen
button_states_keep(states, chat_id, selection) ==
  IF chat_id \in DOMAIN states THEN states ELSE Put(states, chat_id, selection)

button_states(states, chat_id, selection) == Put(states, chat_id, selection)

button_replies(selection) ==
  <<Msg("Pilihan Anda: {mode_text}", <<mode_text(selection)>>)>> \o
  ( IF selection = "chatbot_product"
    THEN <<Msg("Anda sekarang dalam mode <b>Chatbot Product Knowledge</b>. Silakan ajukan pertanyaan Anda. Kirim /stop untuk keluar.", << >>)>>
    ELSE IF selection = "chatbot_ticket"
    THEN <<Msg("Anda sekarang dalam mode <b>Chatbot Ticket Alignment</b>. Silakan ajukan pertanyaan Anda. Kirim /stop untuk keluar.", << >>)>>
    ELSE IF selection = "ticket_system"
    THEN <<Msg("Anda sekarang dalam mode <b>Tiket</b>. Kirim <code>cari [nomor resi]</code> untuk mencari data atau kirim data dengan format yang ditentukan. Kirim /stop untuk keluar.", << >>)>>
    ELSE << >> )

\* a press of a menu button
button_click(u, selection) ==
  /\ Idle(u)
  /\ user_states' = button_states(user_states, u, selection)
  /\ last' = Last("button_click", u, Get(user_states, u), selection, << >>, "", "", << >>,
                  button_replies(selection), "done")
  /\ selected' = [selected EXCEPT ![u] = selection]
  /\ UNCHANGED <<order_sheet, log_sheet, pending>>

UNRECOGNIZED ==
  Msg("Perintah tidak dikenali. Silakan kirim /start untuk melihat menu utama.", << >>)

\* a dispatcher that sends both chatbot modes to the product endpoint
route_one_api(mode) ==
  IF mode \in {"chatbot_product", "chatbot_ticket"}
  THEN [to |-> "handle_chatbot", api |-> CHATBOT_PRODUCT_API]
  ELSE IF mode = "ticket_system" THEN [to |-> "handle_ticket_system", api |-> ""]
  ELSE [to |-> "reply_text", api |-> ""]

\* a dispatcher whose else branch is the order workflow
route_default_ticket(mode) ==
  IF mode = "chatbot_product" THEN [to |-> "handle_chatbot", api |-> CHATBOT_PRODUCT_API]
  ELSE IF mode = "chatbot_ticket" THEN [to |-> "handle_chatbot", api |-> CHATBOT_TICKET_API]
  ELSE [to |-> "handle_ticket_system", api |-> ""]

\* the branch handle_message takes for a mode
route(mode) ==
  IF mode = "chatbot_product" THEN [to |-> "handle_chatbot", api |-> CHATBOT_PRODUCT_API]
  ELSE IF mode = "chatbot_ticket" THEN [to |-> "handle_chatbot", api |-> CHATBOT_TICKET_API]
  ELSE IF mode = "ticket_system" THEN [to |-> "handle_ticket_system", api |-> ""]
  ELSE [to |-> "reply_text", api |-> ""]

\* handle_message for a chat whose mode is one of the two chatbots
message_to_chatbot(u, text, resp) ==
  LET mode == Get(user_states, u)
      r == route(mode)
      c == handle_chatbot(resp)
  IN /\ Idle(u)
     /\ r.to = "handle_chatbot"
     /\ last' = Last("handle_message", u, mode, "", text, r.to, r.api, <<"post">>,
                     c.replies, c.status)
     /\ UNCHANGED <<user_states, order_sheet, log_sheet, pending, selected>>

\* handle_message for a chat whose mode is ticket_system
message_to_ticket(u, text, f) ==
  LET mode == Get(user_states, u)
      r == route(mode)
  IN /\ Idle(u)
     /\ r.to = "handle_ticket_system"
     /\ \E t \in {handle_ticket_system(u, text, order_sheet, log_sheet,
                                       f.sheet, f.log)} :
           /\ Len(t.log) <= MaxLog
           /\ t.status = "running" => Len(order_sheet) < MaxRows
           /\ last' = Last("handle_message", u, mode, "", text, r.to, r.api,
                           t.calls, t.replies, t.status)
           /\ log_sheet' = t.log
           /\ pending' = [pending EXCEPT ![u] =
                IF t.status = "running"
                THEN [row |-> t.row, text |-> text, calls |-> t.calls,
                      seen |-> Len(order_sheet)]
                ELSE << >>]
     /\ UNCHANGED <<user_states, order_sheet, selected>>

\* handle_message for a chat with no mode
message_unrouted(u, text) ==
  LET mode == Get(user_states, u)
      r == route(mode)
  IN /\ Idle(u)
     /\ r.to = "reply_text"
     /\ last' = Last("handle_message", u, mode, "", text, r.to, r.api, << >>,
                     <<UNRECOGNIZED>>, "done")
     /\ UNCHANGED <<user_states, order_sheet, log_sheet, pending, selected>>

\* a write of new_row over the last order row in the place of the append
input_data_overwrite(row, sheet, log, sf, lf) ==
  IF sf = "ok"
  THEN [id_order |-> row[2],
        sheet |-> IF Len(sheet) > 1 THEN [sheet EXCEPT ![Len(sheet)] = row]
                  ELSE Append(sheet, row),
        log |-> log,
        calls |-> <<"order.append_row">>]
  ELSE [id_order |-> << >>, sheet |-> sheet,
        log |-> log_to_sheet(log, INPUT_ERROR, lf),
        calls |-> <<"order.append_row">> \o log_calls(lf)]

\* order_sheet.append_row(new_row) and what follows it
input_data_append(row, sheet, log, sf, lf) ==
  IF sf = "ok"
  THEN [id_order |-> row[2], sheet |-> Append(sheet, row), log |-> log,
        calls |-> <<"order.append_row">>]
  ELSE [id_order |-> << >>, sheet |-> sheet,
        log |-> log_to_sheet(log, INPUT_ERROR, lf),
        calls |-> <<"order.append_row">> \o log_calls(lf)]

\* the rest of a submission that has read the row count
finish_submission(u, sf, lf) ==
  /\ pending[u] # << >>
  /\ \E a \in {input_data_append(pending[u].row, order_sheet, log_sheet, sf, lf)} :
        /\ Len(a.log) <= MaxLog
        /\ Len(a.sheet) <= MaxRows
        /\ order_sheet' = a.sheet
        /\ log_sheet' = a.log
        /\ last' = Last("handle_message", u, Get(user_states, u), "", pending[u].text,
                        "handle_ticket_system", "", pending[u].calls \o a.calls,
                        <<submission_reply(a.id_order)>>, "done")
  /\ pending' = [pending EXCEPT ![u] = << >>]
  /\ UNCHANGED <<user_states, selected>>

\* the failures the environment can inject into one handler: the log is
\* written only after an order-sheet call raised
FaultCases ==
  {f \in [sheet : SheetFaults, log : LogFaults] :
     f.sheet \in {"ok", "connect"} => f.log = "ok"}

\* the spreadsheet may be unreachable, and every call on an opened
\* spreadsheet succeeds
ReliableCases == {f \in FaultCases : f.sheet \in {"ok", "connect"}}

Next ==
  \/ \E u \in Users : start(u)
  \/ \E u \in Users : stop(u)
  \/ \E u \in Users, selection \in Selections : button_click(u, selection)
  \/ \E u \in Users, text \in PlainTexts, resp \in BasicResponses :
        message_to_chatbot(u, text, resp)
  \/ \E u \in Users, text \in Texts, f \in ReliableCases :
        message_to_ticket(u, text, f)
  \/ \E u \in Users, text \in PlainTexts : message_unrouted(u, text)
  \/ \E u \in Users : finish_submission(u, "ok", "ok")

Spec == Init /\ [][Next]_vars

(***************************************************************************)
(* The same handlers with unreliable services: every call on the sheets    *)
(* can fail, the log write included, and the endpoints can time out, fail  *)
(* or answer anything.  The users send one text of each kind.              *)
(***************************************************************************)
FaultTexts == {text_order, text_cari_upper, text_halo}

\* the failures of the append: the connection was made before it
AppendFaultCases == {f \in FaultCases : f.sheet \in {"ok", "io"}}

NextFaults ==
  \/ \E u \in Users : start(u)
  \/ \E u \in Users : stop(u)
  \/ \E u \in Users, selection \in Selections : button_click(u, selection)
  \/ \E u \in Users, resp \in Responses : message_to_chatbot(u, text_halo, resp)
  \/ \E u \in Users, text \in FaultTexts, f \in FaultCases :
        message_to_ticket(u, text, f)
  \/ \E u \in Users : message_unrouted(u, text_halo)
  \/ \E u \in Users, f \in AppendFaultCases : finish_submission(u, f.sheet, f.log)

SpecFaults == Init /\ [][NextFaults]_vars

(***************************************************************************)
(* The handlers when no append comes between the read of the row count     *)
(* and the append of a submission: a submission that another one has       *)
(* overtaken can only fail.                                                *)
(***************************************************************************)
\* any interleaving of the reads and the appends
uninterrupted_any(u) == TRUE

\* no row was appended since the submission of chat u read the row count
uninterrupted(u) == pending[u].seen = Len(order_sheet)

\* the failures of an append_row that raises
AppendFailures == {f \in FaultCases : f.sheet = "io"}

\* the append of a submission that was not overtaken
finish_sequential(u) ==
  /\ pending[u] # << >>
  /\ uninterrupted(u)
  /\ finish_submission(u, "ok", "ok")

NextSequential ==
  \/ \E u \in Users : start(u)
  \/ \E u \in Users : stop(u)
  \/ \E u \in Users, selection \in Selections : button_click(u, selection)
  \/ \E u \in Users, resp \in BasicResponses : message_to_chatbot(u, text_halo, resp)
  \/ \E u \in Users, text \in Texts, f \in ReliableCases :
        message_to_ticket(u, text, f)
  \/ \E u \in Users : message_unrouted(u, text_halo)
  \/ \E u \in Users : finish_sequential(u)
  \/ \E u \in Users, f \in AppendFailures : finish_submission(u, f.sheet, f.log)

SpecSequential == Init /\ [][NextSequential]_vars

(***************************************************************************)
(* Properties of the session modes.                                        *)
(***************************************************************************)

\* C1: after any events of any users, the mode the dispatcher reads for a
\* chat is the mode of that chat's latest menu selection if the chat sent no
\* /stop since, and is absent otherwise; nothing else changes it.
C1_ModeIsLatestSelection ==
  /\ \A u \in Users : Get(user_states, u) = selected[u]
  /\ last.handler = "handle_message" => last.mode = selected[last.user]

\* both chats have a mode, one has been through a /stop and a new selection
\* is read by the dispatcher for its text
C1_Witness ==
  /\ last.handler = "handle_message"
  /\ last.user = 101
  /\ last.mode = "chatbot_ticket"
  /\ selected[102] = "ticket_system"
  /\ Len(order_sheet) = MaxRows

\* C2: a text message is routed by the sender's mode: chatbot_product to the
\* relay with the product endpoint, chatbot_ticket to the relay with the
\* ticket endpoint, ticket_system to the order workflow, and no mode to the
\* fixed reply, with no endpoint and no sheet contacted.
C2_RoutedByMode ==
  last.handler = "handle_message" =>
    LET mode == selected[last.user]
    IN /\ mode = "chatbot_product" =>
            /\ last.to = "handle_chatbot"
            /\ last.api = CHATBOT_PRODUCT_API
       /\ mode = "chatbot_ticket" =>
            /\ last.to = "handle_chatbot"
            /\ last.api = CHATBOT_TICKET_API
       /\ mode = "ticket_system" =>
            /\ last.to = "handle_ticket_system"
            /\ last.api = ""
       /\ mode = NoMode =>
            /\ last.to = "reply_text"
            /\ last.api = ""
            /\ last.calls = << >>
            /\ last.replies = <<UNRECOGNIZED>>
            /\ last.status = "done"

\* a text in chatbot_ticket mode went to the ticket endpoint
C2_Witness ==
  /\ last.handler = "handle_message"
  /\ selected[last.user] = "chatbot_ticket"
  /\ last.api = CHATBOT_TICKET_API
  /\ last.replies = <<Verbatim(s_hi)>>

\* the instructions button_click sends for a menu option
Instructions(selection) ==
  CASE selection = "chatbot_product" ->
         "Anda sekarang dalam mode <b>Chatbot Product Knowledge</b>. Silakan ajukan pertanyaan Anda. Kirim /stop untuk keluar."
    [] selection = "chatbot_ticket" ->
         "Anda sekarang dalam mode <b>Chatbot Ticket Alignment</b>. Silakan ajukan pertanyaan Anda. Kirim /stop untuk keluar."
    [] selection = "ticket_system" ->
         "Anda sekarang dalam mode <b>Tiket</b>. Kirim <code>cari [nomor resi]</code> untuk mencari data atau kirim data dengan format yang ditentukan. Kirim /stop untuk keluar."

\* C9: a menu selection sets the sender's mode to the selected option
\* whatever the mode was before, and sends the instructions of that option;
\* option 3 gives the mode ticket_system and the ticket instructions.
C9_SelectionOverwrites ==
  last.handler = "button_click" =>
    /\ last.data \in Selections
    /\ Get(user_states, last.user) = last.data
    /\ Len(last.replies) = 2
    /\ last.replies[2] = Msg(Instructions(last.data), << >>)
    /\ last.status = "done"

\* option 3 was selected while another mode was active
C9_Witness ==
  /\ last.handler = "button_click"
  /\ last.mode = "chatbot_product"
  /\ last.data = "ticket_system"
  /\ user_states[last.user] = "ticket_system"

\* C10: /stop from a chat with no session leaves the session map as it is
\* and replies; /stop from a chat with a session removes that chat's entry
\* and no other.
C10_StopClearsOnlySender ==
  [][ last'.handler = "stop" =>
        /\ last'.status = "done"
        /\ Len(last'.replies) = 1
        /\ IF last'.user \in DOMAIN user_states
           THEN /\ DOMAIN user_states' = (DOMAIN user_states) \ {last'.user}
                /\ \A v \in DOMAIN user_states' : user_states'[v] = user_states[v]
           ELSE /\ user_states' = user_states
                /\ last'.replies[1].text =
                     "Anda sedang tidak dalam mode apa pun. Kirim /start untuk memulai."
    ]_vars

\* a /stop from a chat with no session, while the other chat has one
C10_Witness ==
  /\ last.handler = "stop"
  /\ last.mode = NoMode
  /\ DOMAIN user_states = Users \ {last.user}

\* C17: in every reachable state every entry of user_states belongs to a
\* chat and holds one of the three menu options, and a chat with no selected
\* mode has no entry.
C17_EntriesAreMenuOptions ==
  /\ DOMAIN user_states \subseteq Users
  /\ \A u \in DOMAIN user_states : user_states[u] \in Selections
  /\ \A u \in Users : selected[u] = NoMode => u \notin DOMAIN user_states

\* a chat that had selected a mode has sent /stop and has no entry, while
\* the other chat keeps its own
C17_Witness ==
  /\ last.handler = "stop"
  /\ last.mode \in Selections
  /\ last.user \notin DOMAIN user_states
  /\ \E v \in DOMAIN user_states : user_states[v] = "chatbot_ticket"

(***************************************************************************)
(* Properties of the order ledger.                                         *)
(***************************************************************************)
SAVED == "Data berhasil disimpan dengan ID Order <b>{id_order}</b>"

\* "ORD-<n>" for a one-digit n
OrdId(n) == <<"O", "R", "D", "-", DigitChars[n + 1]>>

\* the rows of the order sheet after the header
DataRows == {i \in 2..Len(order_sheet) : TRUE}

\* the handler of chat u has just confirmed a submission
Confirms(u) ==
  /\ pending[u] # << >>
  /\ pending'[u] = << >>
  /\ last'.replies[1].text = SAVED

\* C3: a successful submission that saw N rows before its append answers
\* with ORD-<N>, and the ledger gains exactly one row: number N, id ORD-<N>,
\* status 'Sedang dikemas', owner the sender's chat id.
C3_SubmissionUsesRowCount ==
  [][ \A u \in Users :
        Confirms(u) =>
          LET N == pending[u].seen
              n == Len(order_sheet)
          IN /\ last'.user = u
             /\ last'.replies = <<Msg(SAVED, <<OrdId(N)>>)>>
             /\ Len(order_sheet') = n + 1
             /\ SubSeq(order_sheet', 1, n) = order_sheet
             /\ order_sheet'[n + 1][1] = N
             /\ order_sheet'[n + 1][2] = OrdId(N)
             /\ order_sheet'[n + 1][8] = "Sedang dikemas"
             /\ order_sheet'[n + 1][9] = u
    ]_vars

\* a second order has been confirmed as ORD-2
C3_Witness ==
  /\ last.handler = "handle_message"
  /\ last.replies = <<Msg(SAVED, <<OrdId(2)>>)>>
  /\ Len(order_sheet) = 3
  /\ order_sheet[3][2] = OrdId(2)
  /\ order_sheet[3][9] = last.user

\* C4 as stated: two submissions of different chats that have both read the
\* row count, neither having appended, get the same order id.
C4_InFlightSameId ==
  \A u, v \in Users :
    (u # v /\ pending[u] # << >> /\ pending[v] # << >>) =>
      pending[u].row[2] = pending[v].row[2]

\* C4: two submissions of different chats that have both read the row count,
\* neither having appended and no row having been appended between the two
\* reads, get the same order id.
C4_SameCountSameId ==
  \A u, v \in Users :
    (u # v /\ pending[u] # << >> /\ pending[v] # << >>
       /\ pending[u].seen = pending[v].seen) =>
      /\ pending[u].row[2] = pending[v].row[2]
      /\ pending[u].row[2] = OrdId(pending[u].seen)

\* the ledger holds two rows of different chats with the same order id
C4_Witness ==
  \E i, j \in DataRows :
    /\ i < j
    /\ order_sheet[i][2] = order_sheet[j][2]
    /\ order_sheet[i][9] # order_sheet[j][9]
    /\ last.replies = <<Msg(SAVED, <<order_sheet[i][2]>>)>>

\* C5 as stated: every order row of the ledger has a name, an item code, an
\* address and a tracking number, none of them empty.
C5_RequiredFieldsNonEmpty ==
  \A i \in DataRows :
    /\ order_sheet[i][4] # << >>
    /\ order_sheet[i][5] # << >>
    /\ order_sheet[i][6] # << >>
    /\ order_sheet[i][7] # << >>

\* C6: a message in ticket mode that has the two markers of a submission and
\* does not parse gets the fixed validation message, and neither the order
\* sheet nor the log sheet is read or written.
C6_ParseFailureTouchesNothing ==
  [][ ( /\ last'.handler = "handle_message"
        /\ selected[last'.user] = "ticket_system"
        /\ last'.text = text_order_incomplete ) =>
          /\ last'.replies = <<INVALID_FORMAT>>
          /\ last'.status = "done"
          /\ last'.calls = << >>
          /\ order_sheet' = order_sheet
          /\ log_sheet' = log_sheet
          /\ pending' = pending
    ]_vars

\* the incomplete order block was refused while the ledger holds orders
C6_Witness ==
  /\ last.handler = "handle_message"
  /\ last.mode = "ticket_system"
  /\ last.text = text_order_incomplete
  /\ last.replies = <<INVALID_FORMAT>>
  /\ Len(order_sheet) > 1

\* C11: the order sheet is append-only: in every step of every behaviour,
\* failed calls included, each row that exists keeps its position and its
\* contents, and the number of rows does not decrease.
C11_AppendOnly ==
  [][ /\ Len(order_sheet') >= Len(order_sheet)
      /\ \A i \in 1..Len(order_sheet) : order_sheet'[i] = order_sheet[i]
    ]_vars

\* an append failed and was reported while the ledger holds the orders of
\* both chats, in the order they were appended
C11_Witness ==
  /\ last.handler = "handle_message"
  /\ last.replies = <<submission_reply(<< >>)>>
  /\ last.calls[Len(last.calls)] \in {"log.connect", "log.append_row"}
  /\ "order.append_row" \in {last.calls[i] : i \in 1..Len(last.calls)}
  /\ Len(order_sheet) = 3
  /\ order_sheet[2][9] = 102
  /\ order_sheet[3][9] = 101

\* C19: the order sheet changes only in a step of the handler of a text
\* message whose sender is in ticket_system mode and whose text is a
\* submission that parses, and the change is the append of that
\* submission's row; /start, /stop, menu selections, lookups, unrecognized
\* texts and texts sent in a chatbot mode or in no mode leave it unchanged.
C19_OnlySubmissionsWrite ==
  [][ order_sheet' # order_sheet =>
        /\ last'.handler = "handle_message"
        /\ selected[last'.user] = "ticket_system"
        /\ last'.mode = "ticket_system"
        /\ last'.to = "handle_ticket_system"
        /\ TextTable[last'.text].submission
        /\ Truthy(TextTable[last'.text].parsed_data)
        /\ pending[last'.user] # << >>
        /\ order_sheet' = Append(order_sheet, pending[last'.user].row)
    ]_vars

\* a complete order block sent in a chatbot mode was relayed to the chatbot
\* and the ledger, which holds one order, has no row of the sender
C19_Witness ==
  /\ last.handler = "handle_message"
  /\ last.mode = "chatbot_product"
  /\ last.text = text_order
  /\ last.replies = <<Verbatim(s_hi)>>
  /\ Len(order_sheet) = 2
  /\ order_sheet[2][9] # last.user

\* C20: when no append comes between a submission's read of the row count
\* and its own append, and the ledger starts with the header row only, the
\* order ids of the ledger are pairwise distinct, and the row at position k
\* (the header at position 0) has number k and order id ORD-<k>.
C20_SequentialIds ==
  /\ \A i, j \in DataRows : i # j => order_sheet[i][2] # order_sheet[j][2]
  /\ \A k \in 1..(Len(order_sheet) - 1) :
       /\ order_sheet[k + 1][1] = k
       /\ order_sheet[k + 1][2] = s_ORD \o Str(k)

\* two chats have each an order in the ledger, ORD-1 and ORD-2, and an
\* append that failed has added no row
C20_Witness ==
  /\ Len(order_sheet) = 3
  /\ order_sheet[2][2] = OrdId(1)
  /\ order_sheet[3][2] = OrdId(2)
  /\ order_sheet[2][9] # order_sheet[3][9]
  /\ last.replies = <<submission_reply(<< >>)>>
  /\ "order.append_row" \in {last.calls[i] : i \in 1..Len(last.calls)}
  /\ log_sheet # << >>

\* the tracking number a lookup text asks for
QueryOf(text) ==
  IF text = text_cari_upper THEN <<"r", "1">> ELSE <<"X", "9">>

\* the ledger rows whose tracking number is q, letter case ignored
RowsWithResi(q) == {i \in DataRows : Lower(order_sheet[i][7]) = Lower(q)}

\* C8: a lookup 'cari <q>' that read the order sheet answers "not found"
\* when no row's tracking number equals q (case ignored), and otherwise with
\* the summary of the first such row: its name, item code, address and
\* status as stored.
C8_LookupFirstMatch ==
  ( /\ last.handler = "handle_message"
    /\ last.mode = "ticket_system"
    /\ last.text \in {text_cari_upper, text_cari_other}
    /\ last.calls = <<"connect", "order.worksheet", "order.get_all_records">> ) =>
      LET q == QueryOf(last.text)
      IN IF RowsWithResi(q) = {}
         THEN last.replies = <<Msg("Resi <b>{resi}</b> tidak ditemukan.", <<q>>)>>
         ELSE LET i == CHOOSE k \in RowsWithResi(q) : \A j \in RowsWithResi(q) : k <= j
                  a == last.replies[1].args
              IN /\ Len(last.replies) = 1
                 /\ a[1] = q
                 /\ a[2] = order_sheet[i][2]
                 /\ a[4] = order_sheet[i][4]
                 /\ a[5] = order_sheet[i][5]
                 /\ a[6] = order_sheet[i][6]
                 /\ a[7] = order_sheet[i][8]

\* a lookup matched two rows that differ and summarised the first
C8_Witness ==
  /\ last.handler = "handle_message"
  /\ last.text = text_cari_upper
  /\ last.calls = <<"connect", "order.worksheet", "order.get_all_records">>
  /\ Cardinality(RowsWithResi(<<"r", "1">>)) = 2
  /\ order_sheet[2][4] # order_sheet[3][4]
  /\ last.replies[1].args[4] = order_sheet[2][4]

(***************************************************************************)
(* parse_order_message on its own: the specification draws a message of    *)
(* up to MaxLines lines and parses it.                                     *)
(***************************************************************************)
line_nama == <<"n","a","m","a",":"," ","B">>
line_kode == <<"K","o","d","e"," ","B","a","r","a","n","g",":"," ","K">>
line_alamat == <<"A","L","A","M","A","T"," ",":"," ","J">>
line_resi == <<"r","e","s","i",":","R","1">>
line_nama_again == <<"N","a","m","a",":"," ","C"," ">>
line_no_colon == <<"a","l","a","m","a","t"," ","J">>
line_two_labels == <<"n","a","m","a"," ","r","e","s","i",":"," ","X">>
line_late_label == <<"p","s",":"," ","r","e","s","i",":"," ","Z">>

LinePool ==
  {line_nama, line_kode, line_alamat, line_resi, line_nama_again,
   line_no_colon, line_two_labels, line_late_label}

\* "\n".join(lines)
RECURSIVE Join(_)
Join(lines) ==
  IF lines = << >> THEN << >>
  ELSE IF Len(lines) = 1 THEN lines[1]
  ELSE lines[1] \o NL \o Join(Tail(lines))

ParseInputs ==
  {Join(ls) : ls \in UNION {[1..k -> LinePool] : k \in 0..MaxLines}}

InitParse ==
  /\ user_states = << >>
  /\ order_sheet = <<Header>>
  /\ log_sheet = << >>
  /\ pending = [u \in Users |-> << >>]
  /\ selected = [u \in Users |-> NoMode]
  /\ \E message \in ParseInputs :
       last = Last("parse_order_message", 0, NoMode, "", message, "", "",
                   << >>, << >>, "running")

parse_call ==
  /\ last.handler = "parse_order_message"
  /\ last.status = "running"
  /\ last' = [last EXCEPT !.replies = <<parse_order_message(last.text)>>,
                          !.status = "done"]
  /\ UNCHANGED <<user_states, order_sheet, log_sheet, pending, selected>>

NextParse == parse_call

SpecParse == InitParse /\ [][NextParse]_vars

\* the label of a field in an order message
LabelOf(k) ==
  CASE k = "nama" -> s_nama
    [] k = "kodeBarang" -> s_kode_barang
    [] k = "alamat" -> s_alamat
    [] k = "resi" -> s_resi

\* the lines of a message that carry the label of field k: the text before
\* the first colon contains the label, in any letter case
LabelledLines(message, k) ==
  LET lines == Split(message, "\n")
  IN {i \in 1..Len(lines) :
        /\ HasChar(lines[i], ":")
        /\ Contains(Lower(SubSeq(lines[i], 1, FirstIndex(lines[i], ":") - 1)),
                    LabelOf(k))}

\* the text after the first colon of a line, without the spaces around it
ValueOf(line) == Strip(SubSeq(line, FirstIndex(line, ":") + 1, Len(line)))

LastLabelled(message, k) ==
  CHOOSE i \in LabelledLines(message, k) :
    \A j \in LabelledLines(message, k) : j <= i

\* C16: when the label of a field is on more than one line of an order
\* message, the record parse_order_message returns holds for that field the
\* value of the last such line, and nothing of the earlier ones.
C16_LastLabelWins ==
  (last.handler = "parse_order_message" /\ last.status = "done") =>
    LET message == last.text
        data == last.replies[1]
    IN \A k \in RequiredKeys :
         (Truthy(data) /\ Cardinality(LabelledLines(message, k)) > 1) =>
           data[k] = ValueOf(Split(message, "\n")[LastLabelled(message, k)])

\* a message with two lines labelled nama, the first also labelled resi,
\* gave the name of the second line
C16_Witness ==
  /\ last.handler = "parse_order_message"
  /\ last.status = "done"
  /\ last.text = Join(<<line_two_labels, line_kode, line_alamat, line_nama_again>>)
  /\ last.replies[1]["nama"] = <<"C">>
  /\ last.replies[1]["resi"] = <<"X">>

(***************************************************************************)
(* The date of a lookup summary on its own: the specification draws the   *)
(* tanggal_order text of an order row and looks the row up.                *)
(***************************************************************************)
DateYears == {<<"2","0","2","4">>, <<"2","0","2","3">>, <<"0","0","0","0">>, <<"2","4">>}

DateMonths == {<<"0","3">>, <<"3">>, <<"0","2">>, <<"1","2">>, <<"1","3">>, <<"0","0">>, <<"M","a","r">>}

DateDays == {<<"0","5">>, <<"5">>, <<"2","9">>, <<"3","0">>, <<"3","1">>, <<"0","0">>, << >>}

DateSeparators == {<<"-">>, <<"/">>}

\* what follows the date: nothing, a time after a space, a space, a time
\* after a T
DateTails == {<< >>, <<" ","1","0",":","0","0",":","0","0">>, <<" ">>, <<"T","1","0",":","0","0",":","0","0">>}

\* the tanggal_order texts of the rows looked up
StoredDates ==
  { y \o sep \o m \o sep \o d \o tail :
      y \in DateYears, m \in DateMonths, d \in DateDays,
      sep \in DateSeparators, tail \in DateTails }
  \cup { << >>, <<"N","/","A">>, <<" ","2","0","2","4","-","0","3","-","0","5">>, <<"2","0","2","4","-","0","3","-","0","5","-","0","1">> }

\* an order row with tracking number R1 and the given tanggal_order
dated_row(tanggal_order) ==
  <<1, s_ORD \o Str(1), tanggal_order, <<"B">>, <<"K">>, <<"J">>, <<"R","1">>,
    STATUS_DIKEMAS, 101>>

InitDate ==
  /\ user_states = << >>
  /\ \E v \in StoredDates : order_sheet = <<Header, dated_row(v)>>
  /\ log_sheet = << >>
  /\ pending = [u \in Users |-> << >>]
  /\ selected = [u \in Users |-> NoMode]
  /\ last = Last("cek_resi_sheets", 101, NoMode, "", <<"r","1">>, "", "",
                 << >>, << >>, "running")

\* reply_text = await cek_resi_sheets(resi)
lookup_call ==
  /\ last.handler = "cek_resi_sheets"
  /\ last.status = "running"
  /\ \E r \in {cek_resi_sheets(last.text, order_sheet, log_sheet, "ok", "ok")} :
        last' = [last EXCEPT !.replies = <<r.reply>>, !.calls = r.calls,
                             !.status = "done"]
  /\ UNCHANGED <<user_states, order_sheet, log_sheet, pending, selected>>

NextDate == lookup_call

SpecDate == InitDate /\ [][NextDate]_vars

\* the tanggal_order of the row looked up, and the date its summary shows
StoredDate == order_sheet[2][3]

ShownDate == last.replies[1].args[3]

\* the summary of the row has been computed
Summarised ==
  /\ last.handler = "cek_resi_sheets"
  /\ last.status = "done"
  /\ Len(last.replies[1].args) = 7

\* d is a calendar date written YYYY-MM-DD: four, two and two digits
HasDateForm(d) ==
  /\ Len(d) = 10
  /\ d[5] = "-" /\ d[8] = "-"
  /\ AllDigits(SubSeq(d, 1, 4)) /\ AllDigits(SubSeq(d, 6, 7))
  /\ AllDigits(SubSeq(d, 9, 10))
  /\ ToNat(SubSeq(d, 1, 4)) >= 1
  /\ ToNat(SubSeq(d, 6, 7)) \in 1..12
  /\ ToNat(SubSeq(d, 9, 10)) \in
       1..DaysIn(ToNat(SubSeq(d, 1, 4)), ToNat(SubSeq(d, 6, 7)))

\* C18 as stated: a stored date of the form YYYY-MM-DD, alone or followed by
\* a space and a time, is shown as 'DD Mon YYYY', and every stored date that
\* does not have that form is shown unchanged.
C18_FormDecidesRendering ==
  Summarised =>
    LET d == Split(StoredDate, " ")[1]
    IN IF HasDateForm(d)
       THEN ShownDate = SubSeq(d, 9, 10) \o <<" ">> \o
                        MonthAbbr[ToNat(SubSeq(d, 6, 7))] \o <<" ">> \o
                        SubSeq(d, 1, 4)
       ELSE ShownDate = StoredDate

\* the month and day of which d is a writing: a four-digit year from 0001,
\* a month and a day of that month, each on one or two digits, with "-"
\* between them
DateReadings(d) ==
  {md \in (1..12) \X (1..31) :
     /\ Len(d) >= 4
     /\ AllDigits(SubSeq(d, 1, 4))
     /\ ToNat(SubSeq(d, 1, 4)) >= 1
     /\ md[2] <= DaysIn(ToNat(SubSeq(d, 1, 4)), md[1])
     /\ \E ms \in {Str(md[1]), TwoDigits(md[1])},
           ds \in {Str(md[2]), TwoDigits(md[2])} :
          d = SubSeq(d, 1, 4) \o <<"-">> \o ms \o <<"-">> \o ds}

\* C18: a stored date whose text before its first space is a calendar date
\* written year-month-day, with a four-digit year and a month and a day of
\* one or two digits each, is shown as 'DD Mon YYYY' with the day on two
\* digits, whatever follows the space; every other stored date text is
\* shown unchanged.
C18_ParsedDatesRendered ==
  Summarised =>
    LET d == Split(StoredDate, " ")[1]
    IN IF DateReadings(d) # {}
       THEN \E md \in DateReadings(d) :
              ShownDate = TwoDigits(md[2]) \o <<" ">> \o MonthAbbr[md[1]] \o
                          <<" ">> \o SubSeq(d, 1, 4)
       ELSE ShownDate = StoredDate

\* the stored date 2024-03-05 10:00:00 was shown as 05 Mar 2024
C18_Witness ==
  /\ Summarised
  /\ StoredDate = <<"2","0","2","4","-","0","3","-","0","5"," ","1","0",":","0","0",":","0","0">>
  /\ ShownDate = <<"0","5"," ","M","a","r"," ","2","0","2","4">>

(***************************************************************************)
(* Properties of the question-answer relay.                                *)
(***************************************************************************)
\* the fields of a response body that hold a non-empty value
NonEmptyFields(body) == {k \in DOMAIN body : body[k] # << >>}

\* the first non-empty field among result, message, answer, or the fallback
FirstNonEmpty(body) ==
  IF "result" \in NonEmptyFields(body) THEN Verbatim(body["result"])
  ELSE IF "message" \in NonEmptyFields(body) THEN Verbatim(body["message"])
  ELSE IF "answer" \in NonEmptyFields(body) THEN Verbatim(body["answer"])
  ELSE CHATBOT_FALLBACK

\* C12 as stated: when the endpoint answers 200 with a JSON object, the
\* reply is the first non-empty field among result, message, answer, and the
\* fixed fallback message when none of the three is non-empty.
C12_FirstNonEmptyOrFallback ==
  [][ \A u \in Users, resp \in Responses :
        (resp.kind = "dict" /\ message_to_chatbot(u, text_halo, resp)) =>
          last'.replies = <<FirstNonEmpty(resp.body)>>
    ]_vars

\* the responses that are a failure of the transport: no answer in time, a
\* status that is not 2xx, a body that is not JSON
TransportFailures ==
  {resp \in Responses :
     resp.kind \in {"timeout", "http_error", "bad_json_request_exception",
                    "bad_json_value_error"}}

\* C13 as stated: on a transport failure of a question-answer request the
\* user receives the fixed error message, exactly one entry is added to the
\* log sheet, and the request is posted once.
C13_FailureRepliesAndLogs ==
  [][ \A u \in Users, resp \in TransportFailures :
        message_to_chatbot(u, text_halo, resp) =>
          /\ last'.replies = <<CHATBOT_ERROR>>
          /\ Len(log_sheet') = Len(log_sheet) + 1
          /\ last'.calls = <<"post">>
    ]_vars

(***************************************************************************)
(* Properties of the handling of failures.                                 *)
(***************************************************************************)
\* the texts of FaultTexts that make the handler call the order sheet
StorageTexts == {text_order, text_cari_upper}

\* the replies that report a failure without its cause
GenericFailures ==
  {"Gagal terhubung ke database Google Sheets.",
   "Terjadi kesalahan saat mencari resi {resi}.",
   "Data gagal disimpan."}

\* the failures of a call on the order sheet
StorageFaults == {f \in FaultCases : f.sheet # "ok"}

\* the step is the handling, by the handler of chat u, of a failure f of the
\* order sheet: in a lookup, or in a submission before or at its append
StorageFailure(u, f) ==
  \/ message_to_ticket(u, last'.text, f)
  \/ f.sheet = "io" /\ finish_submission(u, f.sheet, f.log)

\* the log message of the function the step ran
ErrorLogged == IF is_lookup(last'.text) THEN CEK_ERROR ELSE INPUT_ERROR

\* the failure was caught and reported, and the order sheet is as it was
CaughtAndReported ==
  /\ last'.status = "done"
  /\ Len(last'.replies) = 1
  /\ last'.replies[1].text \in GenericFailures
  /\ order_sheet' = order_sheet

\* C14 as stated: a failure of the order sheet during a lookup or a
\* submission (connection, worksheet lookup, read or write) is caught, the
\* user receives a generic failure message, the order sheet is unchanged,
\* and an entry is added to the log sheet whenever the log can be written.
C14_AlwaysLogged ==
  [][ \A f \in StorageFaults :
        (last'.text \in StorageTexts /\ StorageFailure(last'.user, f)) =>
          /\ CaughtAndReported
          /\ f.log = "ok" => log_sheet' = Append(log_sheet, <<today, ErrorLogged>>)
    ]_vars

\* C14: a failure of the order sheet during a lookup or a submission is
\* caught, the user receives a generic failure message and the order sheet
\* is unchanged; when the failure comes after the connection was obtained
\* (worksheet lookup, read or append) and the log can be written, one entry
\* is added to the log sheet; when the connection itself fails, or the log
\* cannot be written, the log sheet is unchanged.
C14_LoggedAfterConnection ==
  [][ \A f \in StorageFaults :
        (last'.text \in StorageTexts /\ StorageFailure(last'.user, f)) =>
          /\ CaughtAndReported
          /\ IF f.sheet \in {"worksheet", "io"} /\ f.log = "ok"
             THEN log_sheet' = Append(log_sheet, <<today, ErrorLogged>>)
             ELSE log_sheet' = log_sheet
    ]_vars

\* a lookup whose read of the order sheet failed was reported and logged,
\* while the ledger holds orders
C14_Witness ==
  /\ last.handler = "handle_message"
  /\ last.text = text_cari_upper
  /\ last.calls = <<"connect", "order.worksheet", "order.get_all_records",
                    "log.connect", "log.append_row">>
  /\ last.replies[1].text = "Terjadi kesalahan saat mencari resi {resi}."
  /\ log_sheet = <<<<today, CEK_ERROR>>>>
  /\ Len(order_sheet) > 1

\* C15 as stated: for every text message, in every mode and under every
\* outcome of the endpoints, the order sheet and the log sheet, the handler
\* runs to its end with no exception escaping it and sends exactly one
\* reply.
C15_OneReplyNoException ==
  (last.handler = "handle_message" /\ last.status # "running") =>
    /\ last.status = "done"
    /\ Len(last.replies) = 1

====
